---- MODULE Spec2Model ----
(***************************************************************************)
(* A model of app.py, a Streamlit dashboard for Taiwan-listed ETFs:         *)
(* the ranking scan (get_batch_data and the tab1 handler), the AI analysis *)
(* handler, the add-to-portfolio and clear handlers, the portfolio preview *)
(* and the leverage calculator.                                            *)
(*                                                                         *)
(* Numbers.  Python floats are modelled as exact rationals [n, d]; int()   *)
(* is truncation toward zero.  Share prices and per-share dividend amounts *)
(* are fixed-point integers in units of 1/Scale currency unit; the         *)
(* interest rate is in tenths of a percent (the widget's step is 0.1).     *)
(* Dates are whole days; an event's "age" is now minus its date, so a      *)
(* negative age is a date after now.                                       *)
(***************************************************************************)
EXTENDS Integers, Sequences, FiniteSets, TLC

VARIABLES
    stock_df,        \* st.session_state.stock_df: the stored ranking (a sequence of rows)
    portfolio_list,  \* st.session_state.portfolio_list: the holdings
    pc,              \* "idle", or "scan" while get_batch_data's loop runs
    keys,            \* list(ticker_dict.keys()) of the running scan
    i,               \* the loop index into keys (1-based)
    data,            \* get_batch_data's local list of rows
    table,           \* what table_placeholder shows
    ltv,             \* the LTV slider's value
    interest_rate,   \* the interest-rate input, in tenths of a percent
    ttl_inv,         \* preview: total invested
    ttl_m,           \* preview: total monthly income
    yld,             \* preview: blended yield, percent (a rational)
    lev,             \* <<>> when the calculator is not rendered, else <<projection>>
    notice,          \* the messages (st.success / st.info / st.error) of the current run
    stock,           \* get_batch_data's local: the symbol being stock and the response
                     \* (<<>> outside the loop)
    added            \* history: the inputs of the adds accepted since the last clear

vars == <<stock_df, portfolio_list, pc, keys, i, data, table, ltv,
          interest_rate, ttl_inv, ttl_m, yld, lev, notice, stock, added>>

(***************************************************************************)
(* Program constants.                                                      *)
(***************************************************************************)
LotSize == 1000
WindowDays == 365
MonthsPerYear == 12
MonthlyMin == 10
QuarterlyMin == 3
SemiAnnualCount == 2
DangerBelow == 130
CautionBelow == 160
LtvMax == 60
LtvStep == 10
DefaultRate == 25
Scale == 10000

(***************************************************************************)
(* Bounds of the model.                                                    *)
(***************************************************************************)
MaxIn == 11
MaxOld == 1
MaxFut == 1
MaxHoldings == 2
MaxRatioCents == 17000

(***************************************************************************)
(* Arithmetic.                                                             *)
(***************************************************************************)
Abs(x) == IF x < 0 THEN -x ELSE x

RECURSIVE Gcd(_, _)
Gcd(a, b) == IF b = 0 THEN a ELSE Gcd(b, a % b)

\* The rational n/d (d # 0) in lowest terms with a positive denominator.
Rat(n, d) ==
    LET s == IF d < 0 THEN -1 ELSE 1
        g == Gcd(Abs(n), Abs(d))
    IN  [n |-> (s * n) \div g, d |-> (s * d) \div g]

RInt(k) == [n |-> k, d |-> 1]
RAdd(a, b) == Rat(a.n * b.d + b.n * a.d, a.d * b.d)
RSub(a, b) == Rat(a.n * b.d - b.n * a.d, a.d * b.d)
RMul(a, b) == Rat(a.n * b.n, a.d * b.d)
RDiv(a, b) == Rat(a.n * b.d, a.d * b.n)
RLt(a, b) == a.n * b.d < b.n * a.d
RLe(a, b) == a.n * b.d <= b.n * a.d

\* Python's int(x) on a float: truncation toward zero.
PyInt(r) == IF r.n >= 0 THEN r.n \div r.d ELSE -((-r.n) \div r.d)

\* Optional values: None is <<>>, a present value v is <<v>>.
None == <<>>
Some(v) == <<v>>

\* dict.get(key, default) on a dict modelled as a sequence of <<key, value>> pairs.
DictGet(dict, key, default) ==
    IF \E j \in 1..Len(dict) : dict[j][1] = key
    THEN dict[CHOOSE j \in 1..Len(dict) : dict[j][1] = key][2]
    ELSE default

(***************************************************************************)
(* The built-in database and the market-data responses.                    *)
(***************************************************************************)
ETF_DB ==
    [t \in {"0056.TW", "00878.TW", "00929.TW"} |->
        CASE t = "0056.TW" -> "YuantaHighDividend"
          [] t = "00878.TW" -> "CathaySustainableHighDividend"
          [] t = "00929.TW" -> "FuhHwaTaiwanTechDividend"]

\* list(ETF_DB.keys()): insertion order.
ETF_KEYS == <<"0056.TW", "00878.TW", "00929.TW">>

\* A dividend history in chronological order: o events at or before the
\* window's start (the last of them exactly WindowDays ago), then n events
\* inside the last year (the first 364 days ago, the last dated now), then
\* f events dated after now.  Each group has its own amount.
Amt == [old |-> 7, in |-> 15, fut |-> 40, neg |-> -40]

MkHistory(o, n, f) ==
    [k \in 1..(o + n + f) |->
        IF k <= o
        THEN [age |-> IF k = o THEN WindowDays ELSE WindowDays + 35, amt |-> Amt.old]
        ELSE IF k <= o + n
        THEN [age |-> IF k = o + 1 THEN WindowDays - 1
                      ELSE IF k = o + n THEN 0 ELSE 30 * (o + n - k),
              amt |-> Amt.in]
        ELSE [age |-> -(k - o - n), amt |-> Amt.fut]]

\* A history with a negative per-share amount (malformed).
NegHistory == <<[age |-> 200, amt |-> Amt.in], [age |-> 100, amt |-> Amt.neg]>>

Histories == {MkHistory(o, n, f) : o \in 0..MaxOld, n \in 0..MaxIn, f \in 0..MaxFut}

\* What yf.Ticker(t) answers: error: the fetch raises; last_price:
\* fast_info.last_price; info: the info dict; tz_mixed: the dividend index
\* mixes naive and zone-aware timestamps, so reading its tz raises; events:
\* the dividend series.
Feed(err, lp, info, tzm, ev) ==
    [error |-> err, last_price |-> lp, info |-> info, tz_mixed |-> tzm, events |-> ev]

\* Two share prices: 0.2750 (1,000 shares cost 275) and 1.0007 (1,000 shares
\* cost 1000.7, not a whole number).
Price == [a |-> 2750, b |-> 10007]

\* The price part of a response: a quoted price, a price only in the info
\* dict (under currentPrice or previousClose), an info dict holding None, no
\* price anywhere, and a price of zero.
Quotes ==
    { [last_price |-> Some(Price.a), info |-> <<>>],
      [last_price |-> Some(Price.b), info |-> <<>>],
      [last_price |-> None, info |-> << <<"currentPrice", Some(Price.a)>> >>],
      [last_price |-> None, info |-> << <<"previousClose", Some(Price.a)>> >>],
      [last_price |-> None, info |-> << <<"currentPrice", None>> >>],
      [last_price |-> None, info |-> <<>>],
      [last_price |-> Some(0), info |-> <<>>] }

GoodQuote == [last_price |-> Some(Price.a), info |-> <<>>]

MkFeed(q, tzm, ev) == Feed(FALSE, q.last_price, q.info, tzm, ev)

\* A response whose fetch raises (a network failure).
FailedFeed == Feed(TRUE, None, <<>>, FALSE, <<>>)

\* The responses a scan of the ranking may receive.
ScanFeeds ==
    {MkFeed(q, FALSE, h) : q \in Quotes, h \in Histories}
    \cup {MkFeed(q, FALSE, NegHistory) : q \in Quotes}
    \cup {MkFeed(q, TRUE, MkHistory(0, 2, 0)) : q \in Quotes}
    \cup {FailedFeed}

(***************************************************************************)
(* get_batch_data: one symbol of the loop.                                 *)
(***************************************************************************)
RECURSIVE SumAmt(_)
SumAmt(ev) == IF ev = <<>> THEN 0 ELSE SumAmt(SubSeq(ev, 1, Len(ev) - 1)) + ev[Len(ev)].amt

\* (mutant: the event dated exactly 365 days ago is kept)
LastYear_Inclusive(ev) == SelectSeq(ev, LAMBDA e : e.age <= WindowDays)
\* divs[divs.index > one_year_ago], one_year_ago = now - 365 days.
LastYear(ev) == SelectSeq(ev, LAMBDA e : e.age < WindowDays)

\* (mutant: ten events are not yet monthly)
FreqTag_OffByOne(count) ==
    IF count > MonthlyMin THEN "Monthly"
    ELSE IF count >= QuarterlyMin THEN "Quarterly"
    ELSE IF count = SemiAnnualCount THEN "SemiAnnual"
    ELSE "Annual"

\* The frequency tag of a non-empty window, by its event count.
FreqTag(count) ==
    IF count >= MonthlyMin THEN "Monthly"
    ELSE IF count >= QuarterlyMin THEN "Quarterly"
    ELSE IF count = SemiAnnualCount THEN "SemiAnnual"
    ELSE "Annual"

\* f"{x:.2f}".rstrip('0').rstrip('.'): the amount rounded to hundredths (ties
\* to even), named by its number of hundredths.
Fmt(a) ==
    LET unit == Scale \div 100
        q == Abs(a) \div unit
        r == Abs(a) % unit
        up == 2 * r > unit \/ (2 * r = unit /\ q % 2 = 1)
        m == IF up THEN q + 1 ELSE q
    IN  IF a < 0 THEN -m ELSE m

\* history_str: "no distributions" (tag "None"), or the tag and the amounts.
NoHistory == [tag |-> "None", vals |-> <<>>]

HistoryStr(last_year_divs) ==
    IF last_year_divs = <<>> THEN NoHistory
    ELSE [tag |-> FreqTag(Len(last_year_divs)),
          vals |-> [k \in 1..Len(last_year_divs) |-> Fmt(last_year_divs[k].amt)]]

\* The price the scan uses: last_price, else info's currentPrice, else its
\* previousClose, else 0.
ScanPrice(f) ==
    IF f.last_price # None THEN f.last_price
    ELSE DictGet(f.info, "currentPrice", DictGet(f.info, "previousClose", Some(0)))

\* Whether the loop body leaves the symbol out: the fetch raises, the price
\* is None or 0 (continue), or reading the dividend index raises (except).
ScanSkips(f) ==
    \/ f.error
    \/ ScanPrice(f) = None
    \/ ScanPrice(f) = Some(0)
    \/ (f.events # <<>> /\ f.tz_mixed)

\* new_row for a symbol the loop does not skip.
NewRow(ticker, name, f) ==
    LET price == ScanPrice(f)[1]
        last_year_divs == IF f.events # <<>> THEN LastYear(f.events) ELSE <<>>
        total_annual_div == SumAmt(last_year_divs)
        div_per_sheet_year == Rat(total_annual_div * LotSize, Scale)
        avg_monthly_income_sheet == RDiv(div_per_sheet_year, RInt(MonthsPerYear))
    IN  [code |-> ticker,
         name |-> name,
         history |-> HistoryStr(last_year_divs),
         price |-> price,
         annual |-> PyInt(div_per_sheet_year),
         monthly |-> PyInt(avg_monthly_income_sheet),
         yield_rate |-> IF price > 0 THEN Rat(total_annual_div * 100, price) ELSE RInt(0)]

\* The rows one symbol adds to data: none or one.
ScanOne(ticker, name, f) == IF ScanSkips(f) THEN <<>> ELSE <<NewRow(ticker, name, f)>>

\* sort_values(by monthly, ascending=False): the orders of rows that are
\* non-increasing in monthly; rows that tie may come in any order.
Perms(n) == {p \in [1..n -> 1..n] : \A a, b \in 1..n : a # b => p[a] # p[b]}

IsSortedDesc(rows) == \A k \in 1..(Len(rows) - 1) : rows[k].monthly >= rows[k + 1].monthly

\* (mutant: the rows are left in the order they were appended)
SortedDesc_AsAppended(rows) == {rows}

SortedDesc(rows) ==
    {s \in {[k \in 1..Len(rows) |-> rows[p[k]]] : p \in Perms(Len(rows))} : IsSortedDesc(s)}

(***************************************************************************)
(* The add-to-portfolio handler.                                           *)
(***************************************************************************)
\* The price the tab2 handlers use: last_price, else info's currentPrice, else 0.
HandlerPrice(f) ==
    IF f.last_price # None THEN f.last_price ELSE DictGet(f.info, "currentPrice", Some(0))

\* The responses an add or an analysis may receive.
HandlerFeeds ==
    {MkFeed(q, FALSE, MkHistory(1, 12, 0)) : q \in Quotes}
    \cup {MkFeed(GoodQuote, FALSE, MkHistory(0, 0, 0)),
          MkFeed(GoodQuote, FALSE, MkHistory(0, 2, 1)),
          MkFeed(GoodQuote, TRUE, MkHistory(0, 2, 0)),
          FailedFeed}

\* The amounts of money the number input may hold.
Moneys == {-1000, 0, 200, 1000, 2001}

\* Whether the try block raises: the fetch fails, the price is None (the
\* comparison p > 0 raises), or the dividend index cannot be read.
AddRaises(f) ==
    \/ f.error
    \/ HandlerPrice(f) = None
    \/ (HandlerPrice(f)[1] > 0 /\ f.events # <<>> /\ f.tz_mixed)

\* (mutant: cash that buys no whole lot is rejected)
AddAppends_WholeLotsOnly(add_money, f) ==
    /\ add_money > 0
    /\ ~AddRaises(f)
    /\ HandlerPrice(f)[1] > 0
    /\ add_money * Scale >= HandlerPrice(f)[1] * LotSize

\* Whether the handler appends a holding.
AddAppends(add_money, f) == add_money > 0 /\ ~AddRaises(f) /\ HandlerPrice(f)[1] > 0

\* (mutant: the lot count is rounded up)
Sheets_RoundUp(add_money, cost) ==
    LET q == RDiv(RInt(add_money), cost) IN IF q.d = 1 THEN q.n ELSE PyInt(q) + 1

\* sheets = int(add_money / cost)
Sheets(add_money, cost) == PyInt(RDiv(RInt(add_money), cost))

\* The holding appended.
NewHolding(tk, nm, add_money, f) ==
    LET pr == HandlerPrice(f)[1]
        cost == Rat(pr * LotSize, Scale)
        sheets == Sheets(add_money, cost)
        real_cost == RMul(RInt(sheets), cost)
        yr_div == IF f.events # <<>> THEN SumAmt(LastYear(f.events)) ELSE 0
        ttl_yr == Rat(yr_div * LotSize * sheets, Scale)
        mnth == RDiv(ttl_yr, RInt(MonthsPerYear))
    IN  [stock |-> <<nm, tk>>,
         invested |-> PyInt(real_cost),
         sheets |-> sheets,
         monthly |-> PyInt(mnth)]

\* (mutant: the new holding is put first)
AddResult_Prepend(pl, tk, add_money, f) ==
    IF AddAppends(add_money, f) THEN <<NewHolding(tk, ETF_DB[tk], add_money, f)>> \o pl ELSE pl

\* portfolio_list after the handler ran.
AddResult(pl, tk, add_money, f) ==
    IF AddAppends(add_money, f) THEN Append(pl, NewHolding(tk, ETF_DB[tk], add_money, f)) ELSE pl

\* portfolio_list after the clear handler ran.
ClearResult(pl) == <<>>

(***************************************************************************)
(* The portfolio preview and the leverage calculator.                      *)
(***************************************************************************)
RECURSIVE SumInvested(_)
SumInvested(pl) ==
    IF pl = <<>> THEN 0 ELSE SumInvested(SubSeq(pl, 1, Len(pl) - 1)) + pl[Len(pl)].invested

RECURSIVE SumMonthly(_)
SumMonthly(pl) ==
    IF pl = <<>> THEN 0 ELSE SumMonthly(SubSeq(pl, 1, Len(pl) - 1)) + pl[Len(pl)].monthly

\* (mutant: the monthly income is not annualised)
BlendedYield_NoAnnualise(inv, m) == IF inv > 0 THEN Rat(m * 100, inv) ELSE RInt(0)

\* yld = (ttl_m * 12 / ttl_inv * 100) if ttl_inv > 0 else 0
BlendedYield(inv, m) == IF inv > 0 THEN Rat(m * MonthsPerYear * 100, inv) ELSE RInt(0)

\* ttl_inv, ttl_m and yld: 0, 0, 0 for the empty list, else the sums.
Aggregate(pl) ==
    IF Len(pl) > 0
    THEN [ttl_inv |-> SumInvested(pl),
          ttl_m |-> SumMonthly(pl),
          yld |-> BlendedYield(SumInvested(pl), SumMonthly(pl))]
    ELSE [ttl_inv |-> 0, ttl_m |-> 0, yld |-> RInt(0)]

\* (mutant: a ratio of exactly 130 is still Danger)
RiskBand_Inclusive(maintenance_ratio) ==
    IF RLe(maintenance_ratio, RInt(DangerBelow)) THEN "Danger"
    ELSE IF RLt(maintenance_ratio, RInt(CautionBelow)) THEN "Caution"
    ELSE "Safe"

\* The band the calculator shows for a maintenance ratio.
RiskBand(maintenance_ratio) ==
    IF RLt(maintenance_ratio, RInt(DangerBelow)) THEN "Danger"
    ELSE IF RLt(maintenance_ratio, RInt(CautionBelow)) THEN "Caution"
    ELSE "Safe"

\* max_loan = int(ttl_inv * (ltv / 100))
MaxLoan(inv, l) == PyInt(Rat(inv * l, 100))

\* (mutant: what the loan buys is not counted as collateral)
MaintenanceRatio_WithoutCollateral(inv, max_loan) ==
    IF max_loan > 0 THEN Rat(inv * 100, max_loan) ELSE RInt(0)

\* maintenance_ratio = ((ttl_inv + max_loan) / max_loan) * 100 if max_loan > 0 else 0
MaintenanceRatio(inv, max_loan) ==
    IF max_loan > 0 THEN Rat((inv + max_loan) * 100, max_loan) ELSE RInt(0)

\* (mutant: a loss is clamped to zero)
NetMonthlyGain_Clamped(new_monthly_dividend, monthly_interest) ==
    IF RLt(new_monthly_dividend, monthly_interest) THEN RInt(0)
    ELSE RSub(new_monthly_dividend, monthly_interest)

\* net_monthly_gain = new_monthly_dividend - monthly_interest
NetMonthlyGain(new_monthly_dividend, monthly_interest) ==
    RSub(new_monthly_dividend, monthly_interest)

\* The calculator's values; rate is in tenths of a percent.
Leverage(inv, m, y, l, rate) ==
    LET max_loan == MaxLoan(inv, l)
        yearly_interest == Rat(max_loan * rate, 1000)
        monthly_interest == RDiv(yearly_interest, RInt(MonthsPerYear))
        new_yearly_dividend == RDiv(RMul(RInt(max_loan), y), RInt(100))
        new_monthly_dividend == RDiv(new_yearly_dividend, RInt(MonthsPerYear))
        net_monthly_gain == NetMonthlyGain(new_monthly_dividend, monthly_interest)
        final_monthly_income == RAdd(RInt(m), net_monthly_gain)
        maintenance_ratio == MaintenanceRatio(inv, max_loan)
    IN  [max_loan |-> max_loan,
         monthly_interest |-> monthly_interest,
         new_monthly_dividend |-> new_monthly_dividend,
         net_monthly_gain |-> net_monthly_gain,
         final_monthly_income |-> final_monthly_income,
         maintenance_ratio |-> maintenance_ratio,
         shown_final |-> PyInt(final_monthly_income),
         shown_delta |-> PyInt(net_monthly_gain),
         band |-> RiskBand(maintenance_ratio)]

\* The col_result block of a run: the preview's totals, and the calculator
\* when the list is not empty.
Render(pl, l, rate) ==
    LET agg == Aggregate(pl) IN
    /\ ttl_inv' = agg.ttl_inv
    /\ ttl_m' = agg.ttl_m
    /\ yld' = agg.yld
    /\ lev' = IF Len(pl) > 0
              THEN <<Leverage(agg.ttl_inv, agg.ttl_m, agg.yld, l, rate)>>
              ELSE <<>>

(***************************************************************************)
(* The AI analysis handler.                                                *)
(***************************************************************************)
\* Whether the try block raises (st.error is shown).
AnalysisRaises(f) ==
    \/ f.error
    \/ (f.events # <<>> /\ f.tz_mixed)
    \/ HandlerPrice(f) = None

\* What the handler shows: a warning without a key, an error when the data
\* cannot be read, else the report on price, yield and history.
AnalysisNotice(ai, tk, f) ==
    IF ~ai THEN [kind |-> "warning"]
    ELSE IF AnalysisRaises(f) THEN [kind |-> "error"]
    ELSE LET pr == HandlerPrice(f)[1]
             last_d == IF f.events # <<>> THEN LastYear(f.events) ELSE <<>>
             yr_div == SumAmt(last_d)
         IN  [kind |-> "analysis",
              stock |-> <<ETF_DB[tk], tk>>,
              price |-> pr,
              yield_rate |-> IF pr > 0 THEN Rat(yr_div * 100, pr) ELSE RInt(0),
              history |-> IF f.events # <<>>
                          THEN Some([k \in 1..Len(last_d) |-> Fmt(last_d[k].amt)])
                          ELSE None]

(***************************************************************************)
(* The state machine: one action per script run (a button, a widget        *)
(* change), the scan's loop one symbol at a time.                          *)
(***************************************************************************)
LtvValues == {l \in 0..LtvMax : l % LtvStep = 0}

Init ==
    /\ stock_df = <<>>
    /\ portfolio_list = <<>>
    /\ pc = "idle"
    /\ keys = <<>>
    /\ i = 1
    /\ data = <<>>
    /\ table = <<>>
    /\ ltv = LtvMax
    /\ interest_rate = DefaultRate
    /\ ttl_inv = 0
    /\ ttl_m = 0
    /\ yld = RInt(0)
    /\ lev = <<>>
    /\ notice = <<>>
    /\ stock = <<>>
    /\ added = <<>>

scanVars == <<pc, keys, i, data, table>>
previewVars == <<ttl_inv, ttl_m, yld, lev>>

\* The scan button: get_batch_data(ticker_dict) starts.
ScanStart(ks) ==
    /\ pc = "idle"
    /\ pc' = "scan"
    /\ keys' = ks
    /\ i' = 1
    /\ data' = <<>>
    /\ table' = <<>>
    /\ notice' = <<>>
    /\ stock' = <<>>
    /\ UNCHANGED <<stock_df, portfolio_list, ltv, interest_rate, previewVars, added>>

\* One pass of the loop: fetch, compute the row or skip, show the table.
ScanStep(feeds) ==
    /\ pc = "scan"
    /\ i <= Len(keys)
    /\ \E f \in feeds :
         LET out == ScanOne(keys[i], ETF_DB[keys[i]], f) IN
         /\ data' = data \o out
         /\ stock' = <<[ticker |-> keys[i], feed |-> f]>>
         /\ IF out # <<>>
            THEN table' \in SortedDesc(data \o out)
            ELSE table' = table
    /\ i' = i + 1
    /\ UNCHANGED <<stock_df, portfolio_list, pc, keys, ltv, interest_rate,
                   previewVars, notice, added>>

\* The loop is over: the ranking is stored when it is not empty, the
\* placeholder is emptied and the rest of the page is drawn.
ScanEnd ==
    /\ pc = "scan"
    /\ i > Len(keys)
    /\ IF data # <<>> THEN stock_df' \in SortedDesc(data) ELSE stock_df' = stock_df
    /\ table' = <<>>
    /\ pc' = "idle"
    /\ stock' = <<>>
    /\ Render(portfolio_list, ltv, interest_rate)
    /\ UNCHANGED <<portfolio_list, keys, i, data, ltv, interest_rate, notice, added>>

\* The analysis button; has_ai: whether an API key is configured in the sidebar.
Analyze(tickers, feeds) ==
    /\ pc = "idle"
    /\ \E has_ai \in BOOLEAN, tk \in tickers, f \in feeds :
         notice' = <<AnalysisNotice(has_ai, tk, f)>>
    /\ Render(portfolio_list, ltv, interest_rate)
    /\ UNCHANGED <<stock_df, portfolio_list, scanVars, ltv, interest_rate, stock, added>>

\* The add button.
Add(tickers, moneys, feeds) ==
    /\ pc = "idle"
    /\ Len(portfolio_list) < MaxHoldings
    /\ \E tk \in tickers, add_money \in moneys, f \in feeds :
         /\ portfolio_list' = AddResult(portfolio_list, tk, add_money, f)
         /\ notice' = IF AddAppends(add_money, f)
                      THEN <<[kind |-> "success",
                              sheets |-> NewHolding(tk, ETF_DB[tk], add_money, f).sheets]>>
                      ELSE <<>>
         /\ added' = IF add_money > 0 /\ ~f.error /\ HandlerPrice(f) # None
                        /\ HandlerPrice(f)[1] > 0 /\ ~(f.events # <<>> /\ f.tz_mixed)
                     THEN Append(added, [ticker |-> tk, money |-> add_money, feed |-> f])
                     ELSE added
    /\ Render(portfolio_list', ltv, interest_rate)
    /\ UNCHANGED <<stock_df, scanVars, ltv, interest_rate, stock>>

\* The clear button: the list is emptied and the script reruns.
Clear ==
    /\ pc = "idle"
    /\ portfolio_list' = ClearResult(portfolio_list)
    /\ added' = <<>>
    /\ notice' = <<>>
    /\ Render(portfolio_list', ltv, interest_rate)
    /\ UNCHANGED <<stock_df, scanVars, ltv, interest_rate, stock>>

\* The LTV slider is moved (it is drawn only with a non-empty list).
SetLtv(ltvs) ==
    /\ pc = "idle"
    /\ Len(portfolio_list) > 0
    /\ \E l \in ltvs : l # ltv /\ ltv' = l
    /\ notice' = <<>>
    /\ Render(portfolio_list, ltv', interest_rate)
    /\ UNCHANGED <<stock_df, portfolio_list, scanVars, interest_rate, stock, added>>

\* The interest-rate input is changed.
SetRate(rates) ==
    /\ pc = "idle"
    /\ Len(portfolio_list) > 0
    /\ \E r \in rates : r # interest_rate /\ interest_rate' = r
    /\ notice' = <<>>
    /\ Render(portfolio_list, ltv, interest_rate')
    /\ UNCHANGED <<stock_df, portfolio_list, scanVars, ltv, stock, added>>

\* A rerun of the page with no button pressed (the search box, the select box).
Rerun ==
    /\ pc = "idle"
    /\ notice' = <<>>
    /\ Render(portfolio_list, ltv, interest_rate)
    /\ UNCHANGED <<stock_df, portfolio_list, scanVars, ltv, interest_rate,
                   stock, added>>

(***************************************************************************)
(* Spec: the whole page, over a small set of responses and inputs.         *)
(***************************************************************************)
PageFeeds ==
    {MkFeed(GoodQuote, FALSE, MkHistory(1, 12, 0)),
     MkFeed([last_price |-> None, info |-> <<>>], FALSE, MkHistory(0, 2, 0)),
     FailedFeed}

PageTickers == {ETF_KEYS[1], ETF_KEYS[2]}

PageMoneys == {0, 1000}
PageLtvs == {0, LtvMax}
PageRates == {DefaultRate, 100}

Next ==
    \/ ScanStart(ETF_KEYS)
    \/ ScanStep(PageFeeds)
    \/ ScanEnd
    \/ Analyze(PageTickers, PageFeeds)
    \/ Add(PageTickers, PageMoneys, PageFeeds)
    \/ Clear
    \/ SetLtv(PageLtvs)
    \/ SetRate(PageRates)
    \/ Rerun

Spec == Init /\ [][Next]_vars

(***************************************************************************)
(* SpecFeeds: the per-symbol computations over every response of           *)
(* ScanFeeds: get_batch_data on a two-symbol dictionary, and adds of one   *)
(* holding.  To keep the runs apart, a scan starts from a page with no     *)
(* ranking and no holding, and an add from a page with no ranking.         *)
(***************************************************************************)
ScanKeys == SubSeq(ETF_KEYS, 1, 2)
FeedMoneys == {2001}

NextFeeds ==
    \/ (stock_df = <<>> /\ portfolio_list = <<>> /\ ScanStart(ScanKeys))
    \/ ScanStep(ScanFeeds)
    \/ ScanEnd
    \/ (stock_df = <<>> /\ portfolio_list = <<>> /\ Add({ETF_KEYS[1]}, FeedMoneys, ScanFeeds))
    \/ Clear

SpecFeeds == Init /\ [][NextFeeds]_vars

(***************************************************************************)
(* SpecPortfolio: the tab2 handlers, the preview and the calculator, over  *)
(* every amount of Moneys, every response of HandlerFeeds, every LTV of    *)
(* the slider and the rates of Rates.                                      *)
(***************************************************************************)
Rates == {DefaultRate, 100}

NextPortfolio ==
    \/ Add({ETF_KEYS[1]}, Moneys, HandlerFeeds)
    \/ Clear
    \/ SetLtv(LtvValues)
    \/ SetRate(Rates)

SpecPortfolio == Init /\ [][NextPortfolio]_vars

(***************************************************************************)
(* SpecBand: the risk band as a function of the maintenance ratio, over    *)
(* every ratio from 0 to MaxRatioCents hundredths of a percent.            *)
(***************************************************************************)
InitBand ==
    /\ Init!1 /\ Init!2 /\ Init!3 /\ Init!4 /\ Init!5 /\ Init!6 /\ Init!7 /\ Init!8
    /\ Init!9 /\ Init!10 /\ Init!11 /\ Init!12 /\ Init!14 /\ Init!15 /\ Init!16
    /\ lev \in {<<[maintenance_ratio |-> Rat(c, 100)]>> : c \in 0..MaxRatioCents}

\* Lines 304-309: the band is chosen and shown.
ShowBand ==
    /\ lev # <<>>
    /\ "band" \notin DOMAIN lev[1]
    /\ lev' = <<[maintenance_ratio |-> lev[1].maintenance_ratio,
                 band |-> RiskBand(lev[1].maintenance_ratio)]>>
    /\ UNCHANGED <<stock_df, portfolio_list, scanVars, ltv, interest_rate,
                   ttl_inv, ttl_m, yld, notice, stock, added>>

SpecBand == InitBand /\ [][ShowBand]_vars

(***************************************************************************)
(* SpecRanking: scans of the whole database, one after another, over       *)
(* responses that give rows of different monthly income, a symbol with no  *)
(* price, a fetch that raises and a dividend index that cannot be read.    *)
(***************************************************************************)
RankFeeds ==
    {MkFeed(GoodQuote, FALSE, MkHistory(1, 12, 0)),
     MkFeed([last_price |-> Some(Price.b), info |-> <<>>], FALSE, MkHistory(0, 2, 0)),
     MkFeed([last_price |-> None, info |-> <<>>], FALSE, MkHistory(0, 2, 0)),
     MkFeed(GoodQuote, TRUE, MkHistory(0, 2, 0)),
     FailedFeed}

NextRanking ==
    \/ ScanStart(ETF_KEYS)
    \/ ScanStep(RankFeeds)
    \/ ScanEnd

SpecRanking == Init /\ [][NextRanking]_vars

(***************************************************************************)
(* Definitions the properties share.                                       *)
(***************************************************************************)
RECURSIVE SumOver(_, _)
\* The sum of f[k] over the indices k of S.
SumOver(f, S) ==
    IF S = {} THEN 0
    ELSE LET k == CHOOSE x \in S : TRUE IN f[k] + SumOver(f, S \ {k})

Amounts(ev) == [k \in 1..Len(ev) |-> ev[k].amt]

\* The events dated after now - 365 days.
AfterWindowStart(ev) == {k \in 1..Len(ev) : ev[k].age < WindowDays}

\* The events dated in (now - 365 days, now].
TrailingWindow(ev) == {k \in 1..Len(ev) : ev[k].age < WindowDays /\ ev[k].age >= 0}

\* The rows of data for the symbol the loop has just processed.
StockRows == {k \in 1..Len(data) : stock # <<>> /\ data[k].code = stock[1].ticker}

\* The share price of an accepted add.
AddedPrice(k) == HandlerPrice(added[k].feed)[1]

TotalsOver(Win(_)) ==
    /\ \A k \in StockRows :
          LET ev == stock[1].feed.events
              total == SumOver(Amounts(ev), Win(ev))
              row == data[k]
          IN  /\ Len(row.history.vals) = Cardinality(Win(ev))
              /\ row.yield_rate = Rat(total * 100, row.price)
              /\ row.annual = PyInt(Rat(total * LotSize, Scale))
              /\ row.monthly = PyInt(Rat(total * LotSize, Scale * MonthsPerYear))
    /\ \A k \in 1..Len(added) :
          k <= Len(portfolio_list) =>
          LET ev == added[k].feed.events
              total == SumOver(Amounts(ev), Win(ev))
              h == portfolio_list[k]
          IN  h.monthly = PyInt(Rat(total * LotSize * h.sheets, Scale * MonthsPerYear))

\* The claim as stated: the window ends at now.
C2_TrailingWindowOnly == TotalsOver(TrailingWindow)

\* The claim as amended: the window has no upper end.
C2_AfterWindowStart == TotalsOver(AfterWindowStart)

\* A scan has ranked a symbol whose history holds an event exactly 365 days
\* old, one 364 days old, one dated now and one dated after now.
C2_Witness ==
    /\ StockRows # {}
    /\ \A a \in {WindowDays, WindowDays - 1, 0, -1} :
          \E k \in 1..Len(stock[1].feed.events) : stock[1].feed.events[k].age = a

(***************************************************************************)
(* C3.  Every holding appended for cash c > 0 at share price p > 0, with   *)
(* price_per_lot = 1000 * p, has lots_held = floor(c / price_per_lot).  As *)
(* claimed, invested_amount = lots_held * price_per_lot and the remainder  *)
(* c - invested_amount is >= 0 and < price_per_lot; as amended,            *)
(* invested_amount is that product truncated to a whole number and the     *)
(* remainder is >= 0 and < price_per_lot + 1.                              *)
(***************************************************************************)
\* lots_held = floor(c / price_per_lot), all sides multiplied by Scale.
LotsAreFloor(k) ==
    LET h == portfolio_list[k] IN
    /\ h.sheets >= 0
    /\ h.sheets * AddedPrice(k) * LotSize <= added[k].money * Scale
    /\ added[k].money * Scale < (h.sheets + 1) * AddedPrice(k) * LotSize

C3_InvestedIsProduct ==
    /\ Len(portfolio_list) = Len(added)
    /\ \A k \in 1..Len(portfolio_list) :
          LET h == portfolio_list[k]
              rest == added[k].money - h.invested
          IN  /\ LotsAreFloor(k)
              /\ h.invested * Scale = h.sheets * AddedPrice(k) * LotSize
              /\ rest >= 0
              /\ rest * Scale < AddedPrice(k) * LotSize

C3_InvestedIsTruncatedProduct ==
    /\ Len(portfolio_list) = Len(added)
    /\ \A k \in 1..Len(portfolio_list) :
          LET h == portfolio_list[k]
              rest == added[k].money - h.invested
          IN  /\ LotsAreFloor(k)
              /\ h.invested * Scale <= h.sheets * AddedPrice(k) * LotSize
              /\ h.sheets * AddedPrice(k) * LotSize < (h.invested + 1) * Scale
              /\ rest >= 0
              /\ rest * Scale < AddedPrice(k) * LotSize + Scale

\* The list holds a holding whose price per lot is not a whole number and
\* whose remainder is not below it, and one bought with no remainder lost
\* to truncation.
C3_Witness ==
    /\ \E k \in 1..Len(portfolio_list) :
          /\ portfolio_list[k].sheets > 0
          /\ (added[k].money - portfolio_list[k].invested) * Scale >= AddedPrice(k) * LotSize
    /\ \E k \in 1..Len(portfolio_list) :
          /\ portfolio_list[k].sheets > 0
          /\ portfolio_list[k].invested * Scale = portfolio_list[k].sheets * AddedPrice(k) * LotSize

(***************************************************************************)
(* C4.  total_invested is the sum of the holdings' invested amounts,       *)
(* total_monthly_income the sum of their monthly incomes, and the blended  *)
(* yield is total_monthly_income * 12 / total_invested * 100 when          *)
(* total_invested > 0 and 0 otherwise (the empty list included); the three *)
(* are the same for every permutation of the holdings.                     *)
(***************************************************************************)
C4_Totals ==
    LET n == Len(portfolio_list)
        inv == SumOver([k \in 1..n |-> portfolio_list[k].invested], 1..n)
        m == SumOver([k \in 1..n |-> portfolio_list[k].monthly], 1..n)
    IN  /\ ttl_inv = inv
        /\ ttl_m = m
        /\ inv > 0 => yld.d > 0 /\ yld.n * inv = m * MonthsPerYear * 100 * yld.d
        /\ inv <= 0 => yld = RInt(0)
        /\ \A p \in Perms(n) :
              Aggregate([k \in 1..n |-> portfolio_list[p[k]]])
                  = [ttl_inv |-> ttl_inv, ttl_m |-> ttl_m, yld |-> yld]

\* Two different holdings with income are held and the yield is positive.
C4_Witness ==
    /\ Len(portfolio_list) >= 2
    /\ portfolio_list[1] # portfolio_list[2]
    /\ portfolio_list[1].monthly > 0
    /\ portfolio_list[2].monthly > 0
    /\ yld.n > 0

C6_Bands ==
    (lev # <<>> /\ "band" \in DOMAIN lev[1]) =>
    LET x == lev[1].maintenance_ratio
        b == lev[1].band
    IN  /\ b \in {"Danger", "Caution", "Safe"}
        /\ b = "Danger" <=> x.n < 130 * x.d
        /\ b = "Caution" <=> (130 * x.d <= x.n /\ x.n < 160 * x.d)
        /\ b = "Safe" <=> x.n >= 160 * x.d

\* The band of exactly 130 has been shown, and it is Caution.
C6_Witness ==
    /\ lev # <<>>
    /\ "band" \in DOMAIN lev[1]
    /\ lev[1].maintenance_ratio = RInt(130)
    /\ lev[1].band = "Caution"

(***************************************************************************)
(* C7.  When max_loan is 0 the maintenance ratio is reported as 0 and the  *)
(* projection is never shown in the Danger band.                           *)
(***************************************************************************)
C7_NoLoanNoDanger ==
    (lev # <<>> /\ lev[1].max_loan = 0) =>
        /\ lev[1].maintenance_ratio = RInt(0)
        /\ lev[1].band # "Danger"

(***************************************************************************)
(* C8.  A malformed dividend event (a negative per-share amount, or        *)
(* timestamps of inconsistent time-zone awareness) makes the computation   *)
(* for that symbol end in a reported error: a scan that received such a    *)
(* history for a priced symbol shows an error, and no holding is built     *)
(* from one.                                                               *)
(***************************************************************************)
Malformed(f) ==
    \/ \E k \in 1..Len(f.events) : f.events[k].amt < 0
    \/ (f.events # <<>> /\ f.tz_mixed)

C8_MalformedIsReported ==
    /\ (/\ stock # <<>>
        /\ Malformed(stock[1].feed)
        /\ ~stock[1].feed.error
        /\ stock[1].feed.last_price \notin {None, Some(0)})
       => \E k \in 1..Len(notice) : notice[k].kind = "error"
    /\ \A k \in 1..Len(added) : ~Malformed(added[k].feed)

(***************************************************************************)
(* C9.  A missing or zero price is handled by exclusion everywhere: a scan *)
(* emits no row for a symbol with no price, no holding is built for one,   *)
(* and the analysis never reports on a symbol priced 0 (with a yield of 0) *)
(* instead of excluding it.                                                *)
(***************************************************************************)
NoPrice(f) ==
    /\ f.last_price \in {None, Some(0)}
    /\ \A k \in 1..Len(f.info) : f.info[k][2] \in {None, Some(0)}

C9_SinglePricePolicy ==
    /\ (stock # <<>> /\ NoPrice(stock[1].feed)) => StockRows = {}
    /\ \A k \in 1..Len(added) : ~NoPrice(added[k].feed)
    /\ \A k \in 1..Len(notice) : notice[k].kind = "analysis" => notice[k].price > 0

(***************************************************************************)
(* C10.  After any sequence of add, clear, scan and rerun operations the   *)
(* portfolio list equals, in insertion order, the holdings of the adds     *)
(* accepted (cash > 0, price > 0, no fetch error) since the last clear.    *)
(***************************************************************************)
C10_ListIsAcceptedAdds ==
    portfolio_list =
        [k \in 1..Len(added) |->
            NewHolding(added[k].ticker, ETF_DB[added[k].ticker], added[k].money, added[k].feed)]

\* Two holdings of different symbols are held, in the order of their adds,
\* and a ranking has been stored by a scan.
C10_Witness ==
    /\ Len(portfolio_list) = 2
    /\ added[1].ticker # added[2].ticker
    /\ portfolio_list[1].stock[2] = added[1].ticker
    /\ stock_df # <<>>

(***************************************************************************)
(* C11.  Every table shown during a scan and the stored ranking are sorted *)
(* by monthly income per lot in non-increasing order.  A pass of the loop  *)
(* over a symbol whose price is available and that raises no error appends *)
(* exactly one row, for that symbol; a pass over a symbol that fails       *)
(* leaves the rows and the table shown as they were.  As claimed, the      *)
(* ranking stored when a scan ends holds exactly the rows of that scan; as *)
(* amended, it does when the scan produced a row, and a scan that produced *)
(* none leaves the ranking stored before it in place.                      *)
(***************************************************************************)
RowSet(rows) == {rows[k] : k \in 1..Len(rows)}

\* The same rows, whatever their order.
SameRows(a, b) == Len(a) = Len(b) /\ RowSet(a) = RowSet(b)

NonIncreasing(rows) ==
    \A a, b \in 1..Len(rows) : a < b => rows[a].monthly >= rows[b].monthly

OneRowPerSymbol(rows) ==
    \A a, b \in 1..Len(rows) : a # b => rows[a].code # rows[b].code

\* The price of the symbol is available and nothing raised in its pass.
Ranked(f) ==
    /\ ~f.error
    /\ ScanPrice(f) \notin {None, Some(0)}
    /\ ~(f.events # <<>> /\ f.tz_mixed)

\* What is shown and stored is sorted and holds no symbol twice; the table
\* of a running scan holds the rows computed so far.
RankingShown ==
    /\ NonIncreasing(table)
    /\ NonIncreasing(stock_df)
    /\ OneRowPerSymbol(data)
    /\ OneRowPerSymbol(stock_df)
    /\ \A k \in 1..Len(data) : \E j \in 1..(i - 1) : j <= Len(keys) /\ keys[j] = data[k].code
    /\ table # <<>> => pc = "scan" /\ SameRows(table, data)

\* A scan starts with no row and an empty table.
ScanBegins == (pc = "idle" /\ pc' = "scan") => (data' = <<>> /\ table' = <<>> /\ i' = 1)

\* One pass of the loop.
PassAddsItsRow ==
    (pc = "scan" /\ pc' = "scan" /\ i' = i + 1) =>
        /\ stock' # <<>>
        /\ stock'[1].ticker = keys[i]
        /\ IF Ranked(stock'[1].feed)
           THEN /\ Len(data') = Len(data) + 1
                /\ SubSeq(data', 1, Len(data)) = data
                /\ data'[Len(data')].code = keys[i]
                /\ data'[Len(data')].price = ScanPrice(stock'[1].feed)[1]
                /\ SameRows(table', data')
           ELSE /\ data' = data
                /\ table' = table

\* The end of a scan, as claimed: the ranking stored is the scan's rows.
EndStoresRows == (pc = "scan" /\ pc' = "idle") => SameRows(stock_df', data)

\* The end of a scan, as amended.
EndStoresRowsIfAny ==
    (pc = "scan" /\ pc' = "idle") =>
        IF data # <<>> THEN SameRows(stock_df', data) ELSE stock_df' = stock_df

C11_RankingIsTheScan ==
    [](RankingShown) /\ [][ScanBegins /\ PassAddsItsRow /\ EndStoresRows]_vars

C11_RankingIsTheLastScanWithRows ==
    [](RankingShown) /\ [][ScanBegins /\ PassAddsItsRow /\ EndStoresRowsIfAny]_vars

\* A scan in which one symbol failed has ended and stored two rows of
\* different monthly income, in another order than they were computed in.
C11_Witness ==
    /\ pc = "idle"
    /\ Len(keys) = 3
    /\ Len(data) = 2
    /\ data[1].monthly < data[2].monthly
    /\ SameRows(stock_df, data)
    /\ stock_df[1].monthly > stock_df[2].monthly

(***************************************************************************)
(* C12.  The LTV is one of 0, 10, ..., 60 and max_loan is at most 0.6 *    *)
(* total_invested, so every projection with max_loan > 0 has a maintenance *)
(* ratio of at least 100 * (1 + 100/60) = 800/3 > 266 and is shown Safe;   *)
(* no projection is shown in the Caution band, and one is shown in the     *)
(* Danger band only when max_loan = 0 and the ratio is the convention 0.   *)
(***************************************************************************)
C12_LoanIsAlwaysSafe ==
    lev # <<>> =>
    LET L == lev[1]
        x == L.maintenance_ratio
    IN  /\ ltv \in {0, 10, 20, 30, 40, 50, 60}
        /\ 100 * L.max_loan <= 60 * ttl_inv
        /\ L.max_loan > 0 =>
              /\ x.d > 0
              /\ 3 * x.n >= 800 * x.d
              /\ x.n > 266 * x.d
              /\ L.band = "Safe"
        /\ L.band # "Caution"
        /\ L.band = "Danger" => (L.max_loan = 0 /\ x = RInt(0))

\* The largest loan the slider allows is projected on a portfolio of 1000
\* invested: the ratio is exactly 800/3 and the band is Safe.
C12_Witness ==
    /\ lev # <<>>
    /\ ltv = 60
    /\ ttl_inv = 1000
    /\ lev[1].max_loan = 600
    /\ lev[1].maintenance_ratio = Rat(800, 3)
    /\ lev[1].band = "Safe"

(***************************************************************************)
(* C13.  An add with cash c, 0 < c < price_per_lot, at an available price  *)
(* is not rejected: it appends a holding with 0 lots, invested amount 0    *)
(* and monthly income 0.  In every state with a non-empty portfolio and    *)
(* total_invested = 0 the blended yield is 0 and max_loan is 0.            *)
(***************************************************************************)
\* The k-th accepted add brought less cash than one lot costs.
BelowOneLot(k) ==
    /\ added[k].money > 0
    /\ added[k].money * Scale < AddedPrice(k) * LotSize

C13_CashBelowOneLot ==
    /\ Len(portfolio_list) = Len(added)
    /\ \A k \in 1..Len(added) :
          (k <= Len(portfolio_list) /\ BelowOneLot(k)) =>
              /\ portfolio_list[k].sheets = 0
              /\ portfolio_list[k].invested = 0
              /\ portfolio_list[k].monthly = 0
    /\ (Len(portfolio_list) > 0 /\ ttl_inv = 0) =>
          /\ yld = RInt(0)
          /\ lev # <<>>
          /\ lev[1].max_loan = 0

\* The page has just confirmed an add of 0 lots of a symbol that pays
\* dividends; the portfolio is not empty, nothing is invested, and the
\* calculator is drawn at the largest LTV.
C13_Witness ==
    /\ Len(portfolio_list) > 0
    /\ Len(added) = Len(portfolio_list)
    /\ BelowOneLot(Len(added))
    /\ SumAmt(LastYear(added[Len(added)].feed.events)) > 0
    /\ notice = <<[kind |-> "success", sheets |-> 0]>>
    /\ ttl_inv = 0
    /\ ltv = LtvMax
    /\ lev # <<>>
    /\ lev[1].max_loan = 0

====
